---------------------------- MODULE Spec2Model ----------------------------
(***************************************************************************)
(* Data Loader & Explorer (src/streamlit_app.py): the session state, the   *)
(* warehouse the app writes to, one action per script run of main(), and   *)
(* the SQL text the explore page assembles.                                *)
(*                                                                         *)
(* Text is a TLA+ string: \o is Python's +, Len is len, SubSeq is slicing. *)
(***************************************************************************)
EXTENDS Integers, Sequences, FiniteSets, TLC

VARIABLES
    loaded_table,   \* st.session_state.loaded_table (None or "db.schema.table")
    query_history,  \* st.session_state.query_history, newest first
    current_mode,   \* st.session_state.current_mode: "upload" | "explore"
    tables,         \* the warehouse: fully-qualified name -> stored dataset
    log,            \* every add_query_history call so far, oldest first
    run,            \* the last script run: its inputs, warehouse calls and messages
    built           \* the query text the last explore-page run assembled

vars == <<loaded_table, query_history, current_mode, tables, log, run, built>>

----------------------------------------------------------------------------
(* Bounds of the model and constants of the program *)

\* records a behaviour of Spec may make (script runs that click a button)
MaxClicks == 2
\* records a behaviour of SpecHistory may make
MaxRecords == 11
\* condition rows filled in on the explore page in SpecAssemble (the widget allows 0..5)
MaxRows == 2
\* Lines of an uploaded JSON file.
MaxLines == 3

\* query_history[:10]
HistoryCapacity == 10
\* query[:100] + '...'
QueryDisplayLen == 100
\* st.number_input(<number of conditions>, min_value=0, max_value=5)
MaxConditions == 5
\* st.number_input("LIMIT", min_value=1, max_value=100000, value=100)
LimitMin == 1
LimitMax == 100000
LimitDefault == 100

None == "<None>"

----------------------------------------------------------------------------
(* Text helpers: str.join, str.upper, str.lower, str.replace, str.startswith, str.endswith *)

RECURSIVE Join(_, _)
Join(parts, sep) ==
    IF Len(parts) = 0 THEN ""
    ELSE IF Len(parts) = 1 THEN parts[1]
    ELSE parts[1] \o sep \o Join(Tail(parts), sep)

UpperChar(c) ==
    CASE c = "a" -> "A" [] c = "b" -> "B" [] c = "c" -> "C" [] c = "d" -> "D"
      [] c = "e" -> "E" [] c = "f" -> "F" [] c = "g" -> "G" [] c = "h" -> "H"
      [] c = "i" -> "I" [] c = "j" -> "J" [] c = "k" -> "K" [] c = "l" -> "L"
      [] c = "m" -> "M" [] c = "n" -> "N" [] c = "o" -> "O" [] c = "p" -> "P"
      [] c = "q" -> "Q" [] c = "r" -> "R" [] c = "s" -> "S" [] c = "t" -> "T"
      [] c = "u" -> "U" [] c = "v" -> "V" [] c = "w" -> "W" [] c = "x" -> "X"
      [] c = "y" -> "Y" [] c = "z" -> "Z" [] OTHER -> c

LowerChar(c) ==
    CASE c = "A" -> "a" [] c = "B" -> "b" [] c = "C" -> "c" [] c = "D" -> "d"
      [] c = "E" -> "e" [] c = "F" -> "f" [] c = "G" -> "g" [] c = "H" -> "h"
      [] c = "I" -> "i" [] c = "J" -> "j" [] c = "K" -> "k" [] c = "L" -> "l"
      [] c = "M" -> "m" [] c = "N" -> "n" [] c = "O" -> "o" [] c = "P" -> "p"
      [] c = "Q" -> "q" [] c = "R" -> "r" [] c = "S" -> "s" [] c = "T" -> "t"
      [] c = "U" -> "u" [] c = "V" -> "v" [] c = "W" -> "w" [] c = "X" -> "x"
      [] c = "Y" -> "y" [] c = "Z" -> "z" [] OTHER -> c

RECURSIVE Lower(_)
Lower(s) == IF s = "" THEN "" ELSE LowerChar(Head(s)) \o Lower(Tail(s))

StartsWith(s, prefix) ==
    Len(s) >= Len(prefix) /\ SubSeq(s, 1, Len(prefix)) = prefix

EndsWith(s, suffix) ==
    Len(s) >= Len(suffix) /\ SubSeq(s, Len(s) - Len(suffix) + 1, Len(s)) = suffix

RECURSIVE Upper(_)
Upper(s) == IF s = "" THEN "" ELSE UpperChar(Head(s)) \o Upper(Tail(s))

RECURSIVE Replace(_, _, _)
Replace(s, old, new) ==
    IF s = "" THEN ""
    ELSE (IF Head(s) = old THEN new ELSE Head(s)) \o Replace(Tail(s), old, new)

----------------------------------------------------------------------------
(* The explore page's SQL assembly, render_explore_page lines 700-837 *)

NullaryOps == {"IS NULL", "IS NOT NULL"}

\* def quote_column(col_name): return f'"{col_name}"'
quote_column(col_name) == "\"" \o col_name \o "\""

\* Row i (1-based) of n condition rows as the widgets hand it over: the value
\* input is not shown for a nullary operator, the logic box only before the last row.
CondValue(row) == IF row.operator \in NullaryOps THEN "" ELSE row.value

CondLogic(row, i, n) == IF i < n THEN row.logic ELSE ""

\* The loop over range(num_conditions): a row is appended to where_conditions
\* when its operator is nullary or its value is not empty.
RECURSIVE CollectConditions(_, _, _)
CollectConditions(rows, i, n) ==
    IF i > n THEN <<>>
    ELSE LET row == rows[i]
             cond == [column |-> row.column, operator |-> row.operator,
                      value |-> CondValue(row), logic |-> CondLogic(row, i, n)]
         IN  IF row.operator \in NullaryOps \/ CondValue(row) # ""
             THEN <<cond>> \o CollectConditions(rows, i + 1, n)
             ELSE CollectConditions(rows, i + 1, n)

where_conditions(rows) == CollectConditions(rows, 1, Len(rows))

\* One condition's text with the column left bare.
CondText_bare(cond) ==
    IF cond.operator \in NullaryOps
    THEN cond.column \o " " \o cond.operator
    ELSE cond.column \o " " \o cond.operator \o " " \o cond.value

\* One condition's text.
CondText(cond) ==
    IF cond.operator \in NullaryOps
    THEN quote_column(cond.column) \o " " \o cond.operator
    ELSE quote_column(cond.column) \o " " \o cond.operator \o " " \o cond.value

\* where_parts: each condition's text, followed by its logic when it has one.
RECURSIVE where_parts(_)
where_parts(conds) ==
    IF Len(conds) = 0 THEN <<>>
    ELSE LET cond == Head(conds)
         IN  <<CondText(cond)>>
             \o (IF cond.logic # "" THEN <<cond.logic>> ELSE <<>>)
             \o where_parts(Tail(conds))

\* where_clause = " ".join(where_parts), then combined with custom_where.
conditions_text(conds) == Join(where_parts(conds), " ")

\* The two filters joined without their parentheses.
where_clause_bare(conds, custom_where) ==
    LET text == conditions_text(conds)
    IN  IF custom_where # ""
        THEN IF text # "" THEN text \o " AND " \o custom_where ELSE custom_where
        ELSE text

where_clause(conds, custom_where) ==
    LET text == conditions_text(conds)
    IN  IF custom_where # ""
        THEN IF text # ""
             THEN "(" \o text \o ") AND (" \o custom_where \o ")"
             ELSE custom_where
        ELSE text

RECURSIVE QuoteAll(_)
QuoteAll(cols) ==
    IF Len(cols) = 0 THEN <<>> ELSE <<quote_column(Head(cols))>> \o QuoteAll(Tail(cols))

select_list(selected_columns) ==
    IF Len(selected_columns) > 0 THEN Join(QuoteAll(selected_columns), ", ") ELSE "*"

\* The select list with the DISTINCT box ignored.
select_clause_plain(selected_columns, distinct) == select_list(selected_columns)

select_clause(selected_columns, distinct) ==
    IF distinct THEN "DISTINCT " \o select_list(selected_columns)
    ELSE select_list(selected_columns)

\* The first option of the ORDER BY box, shown as the Japanese word for "none".
NoOrder == "<nashi>"

order_clause(order_by, order_dir) ==
    IF order_by # NoOrder
    THEN "ORDER BY " \o quote_column(order_by) \o " " \o order_dir
    ELSE ""

\* The lines with ORDER BY appended before WHERE.
sql_lines_order_first(full_table, q) ==
    LET w == where_clause(where_conditions(q.rows), q.custom_where)
        o == order_clause(q.order_by, q.order_dir)
    IN  <<"SELECT " \o select_clause(q.selected_columns, q.distinct),
          "FROM " \o full_table>>
        \o (IF o # "" THEN <<o>> ELSE <<>>)
        \o (IF w # "" THEN <<"WHERE " \o w>> ELSE <<>>)
        \o <<"LIMIT " \o ToString(q.limit)>>

\* The lines of the statement, in the order the code appends them.
sql_lines(full_table, q) ==
    LET w == where_clause(where_conditions(q.rows), q.custom_where)
        o == order_clause(q.order_by, q.order_dir)
    IN  <<"SELECT " \o select_clause(q.selected_columns, q.distinct),
          "FROM " \o full_table>>
        \o (IF w # "" THEN <<"WHERE " \o w>> ELSE <<>>)
        \o (IF o # "" THEN <<o>> ELSE <<>>)
        \o <<"LIMIT " \o ToString(q.limit)>>

generated_sql(full_table, q) == Join(sql_lines(full_table, q), "\n")

\* The widgets as the page first shows them: no column selected, 0 conditions,
\* no raw filter, no ORDER BY, LIMIT 100, DISTINCT unchecked.
DefaultQuery ==
    [selected_columns |-> <<>>, rows |-> <<>>, custom_where |-> "",
     order_by |-> NoOrder, order_dir |-> "ASC", limit |-> LimitDefault,
     distinct |-> FALSE]

----------------------------------------------------------------------------
(* The history log, add_query_history lines 214-223 *)

\* The two status texts the code writes (Japanese for "success" and "failure").
Success == "success"
Failed == "failed"

Take(s, n) == IF Len(s) <= n THEN s ELSE SubSeq(s, 1, n)

\* query[:100] + '...' if len(query) > 100 else query
DisplayText(query) ==
    IF Len(query) > QueryDisplayLen
    THEN SubSeq(query, 1, QueryDisplayLen) \o "..."
    ELSE query

\* The record of one call; datetime.now() is the call's place in the session.
HistoryRecord(ts, call) ==
    [timestamp |-> ts, query |-> DisplayText(call.query),
     status |-> call.status, rows |-> call.rows]

\* The log without its cut to ten entries.
add_query_history_uncut(history, record) == <<record>> \o history

\* query_history.insert(0, record); query_history = query_history[:10]
add_query_history(history, record) ==
    Take(<<record>> \o history, HistoryCapacity)

\* The calls of one script run, applied in order.
RECURSIVE RecordAll(_, _, _)
RecordAll(history, calls, ts) ==
    IF Len(calls) = 0 THEN history
    ELSE RecordAll(add_query_history(history, HistoryRecord(ts, Head(calls))),
                   Tail(calls), ts + 1)

RECURSIVE Stamped(_, _)
Stamped(calls, ts) ==
    IF Len(calls) = 0 THEN <<>>
    ELSE <<HistoryRecord(ts, Head(calls))>> \o Stamped(Tail(calls), ts + 1)

Call(query, status, rows) == [query |-> query, status |-> status, rows |-> rows]

----------------------------------------------------------------------------
(* The warehouse behind session.sql and DataFrameWriter.save_as_table *)

Locations == {"FROSTYFRIDAY.WEEK80"}

FullName(loc, table_name) == loc \o "." \o table_name

Dataset(cols, rows) == [cols |-> cols, rows |-> rows]

NoData == Dataset(<<>>, <<>>)

Raised(t, message) == [ok |-> FALSE, tables |-> t, error |-> message]

Done(t) == [ok |-> TRUE, tables |-> t, error |-> ""]

\* DROP TABLE IF EXISTS <name>
DropTableIfExists(t, name) == [x \in DOMAIN t \ {name} |-> t[x]]

CreateTableAs(t, name, df) == [x \in DOMAIN t \cup {name} |-> IF x = name THEN df ELSE t[x]]

\* write.mode(mode).save_as_table(name): "errorifexists" creates the table or
\* raises when it exists; "append" creates it when missing and otherwise inserts
\* the rows, raising when the columns do not match.
SaveAsTable(t, name, table_name, df, mode) ==
    IF table_name = "" THEN Raised(t, "syntax error")
    ELSE IF mode = "append"
    THEN IF name \notin DOMAIN t THEN Done(CreateTableAs(t, name, df))
         ELSE IF t[name].cols = df.cols
         THEN Done(CreateTableAs(t, name, Dataset(df.cols, t[name].rows \o df.rows)))
         ELSE Raised(t, "invalid identifier")
    ELSE IF name \in DOMAIN t
    THEN Raised(t, "Object '" \o table_name \o "' already exists.")
    ELSE Done(CreateTableAs(t, name, df))

ConnectorError == "Insufficient privileges"

----------------------------------------------------------------------------
(* Uploaded files, and detect_file_type lines 225-241 *)

\* An uploaded file: its name, its text (what matters of a JSON file), and for
\* the formats a library reads (read_csv, read_parquet, fastavro, pyarrow.orc)
\* whether the library accepts the bytes and the dataframe it then returns.
File(name, content, ok, df) == [name |-> name, content |-> content, ok |-> ok, df |-> df]

NoFile == File("", "", FALSE, NoData)

Sales == Dataset(<<"AMOUNT", "STATUS">>, << <<"1500", "ACTIVE">>, <<"200", "CLOSED">> >>)
Events == Dataset(<<"ID">>, << <<"7">> >>)
OldSales == Dataset(<<"AMOUNT", "STATUS">>, << <<"900", "ACTIVE">> >>)

Files ==
    { File("web sales.csv", "", TRUE, Sales),
      File("events.JSON", "[{\"ID\": 7}]", FALSE, NoData),
      File("broken.csv", "", FALSE, NoData) }

\* The extension match without the lower-casing of the name.
detect_file_type_cased(name) ==
    IF EndsWith(name, ".csv") THEN "CSV"
    ELSE IF EndsWith(name, ".tsv") THEN "TSV"
    ELSE IF EndsWith(name, ".json") \/ EndsWith(name, ".jsonl") THEN "JSON"
    ELSE IF EndsWith(name, ".parquet") THEN "PARQUET"
    ELSE IF EndsWith(name, ".avro") THEN "AVRO"
    ELSE IF EndsWith(name, ".orc") THEN "ORC"
    ELSE "UNKNOWN"

detect_file_type(name) ==
    LET filename == Lower(name)
    IN  IF EndsWith(filename, ".csv") THEN "CSV"
        ELSE IF EndsWith(filename, ".tsv") THEN "TSV"
        ELSE IF EndsWith(filename, ".json") \/ EndsWith(filename, ".jsonl") THEN "JSON"
        ELSE IF EndsWith(filename, ".parquet") THEN "PARQUET"
        ELSE IF EndsWith(filename, ".avro") THEN "AVRO"
        ELSE IF EndsWith(filename, ".orc") THEN "ORC"
        ELSE "UNKNOWN"

----------------------------------------------------------------------------
(* json.loads over the part of JSON the files drawn here use: numbers made *)
(* of digits, strings without escapes, objects and arrays, and whitespace  *)

Char(s, i) == IF i >= 1 /\ i <= Len(s) THEN SubSeq(s, i, i) ELSE ""

Whitespace == {" ", "\n", "\t", "\r"}

Digits == {"0", "1", "2", "3", "4", "5", "6", "7", "8", "9"}

RECURSIVE SkipWs(_, _)
SkipWs(s, i) == IF Char(s, i) \in Whitespace THEN SkipWs(s, i + 1) ELSE i

RECURSIVE SkipWsBack(_, _)
SkipWsBack(s, i) == IF Char(s, i) \in Whitespace THEN SkipWsBack(s, i - 1) ELSE i

\* str.strip()
Strip(s) == SubSeq(s, SkipWs(s, 1), SkipWsBack(s, Len(s)))

RECURSIVE ScanTo(_, _, _)
ScanTo(s, i, c) ==
    IF i > Len(s) THEN 0 ELSE IF Char(s, i) = c THEN i ELSE ScanTo(s, i + 1, c)

\* str.split('\n')
RECURSIVE SplitLines(_)
SplitLines(s) ==
    LET j == ScanTo(s, 1, "\n")
    IN  IF j = 0 THEN <<s>>
        ELSE <<SubSeq(s, 1, j - 1)>> \o SplitLines(SubSeq(s, j + 1, Len(s)))

RECURSIVE ScanDigits(_, _)
ScanDigits(s, i) == IF Char(s, i) \in Digits THEN ScanDigits(s, i + 1) ELSE i

NoParse == [ok |-> FALSE, v |-> [k |-> "none"], next |-> 0]

Parsed(v, next) == [ok |-> TRUE, v |-> v, next |-> next]

RECURSIVE ParseValue(_, _), ParseMembers(_, _, _, _), ParseElements(_, _, _)
ParseValue(s, i0) ==
    LET i == SkipWs(s, i0)
        c == Char(s, i)
    IN  IF c \in Digits
        THEN LET j == ScanDigits(s, i)
             IN  Parsed([k |-> "num", text |-> SubSeq(s, i, j - 1)], j)
        ELSE IF c = "\""
        THEN LET j == ScanTo(s, i + 1, "\"")
             IN  IF j = 0 THEN NoParse
                 ELSE Parsed([k |-> "str", text |-> SubSeq(s, i + 1, j - 1)], j + 1)
        ELSE IF c = "{"
        THEN IF Char(s, SkipWs(s, i + 1)) = "}"
             THEN Parsed([k |-> "obj", keys |-> <<>>, vals |-> <<>>], SkipWs(s, i + 1) + 1)
             ELSE ParseMembers(s, i + 1, <<>>, <<>>)
        ELSE IF c = "["
        THEN IF Char(s, SkipWs(s, i + 1)) = "]"
             THEN Parsed([k |-> "arr", items |-> <<>>], SkipWs(s, i + 1) + 1)
             ELSE ParseElements(s, i + 1, <<>>)
        ELSE NoParse

ParseMembers(s, i0, keys, vals) ==
    LET key == ParseValue(s, i0)
    IN  IF ~key.ok \/ key.v.k # "str" THEN NoParse
        ELSE LET colon == SkipWs(s, key.next)
             IN  IF Char(s, colon) # ":" THEN NoParse
                 ELSE LET val == ParseValue(s, colon + 1)
                      IN  IF ~val.ok THEN NoParse
                          ELSE LET after == SkipWs(s, val.next)
                                   ks == keys \o <<key.v.text>>
                                   vs == vals \o <<val.v>>
                               IN  IF Char(s, after) = ","
                                   THEN ParseMembers(s, after + 1, ks, vs)
                                   ELSE IF Char(s, after) = "}"
                                   THEN Parsed([k |-> "obj", keys |-> ks, vals |-> vs],
                                               after + 1)
                                   ELSE NoParse

ParseElements(s, i0, items) ==
    LET val == ParseValue(s, i0)
    IN  IF ~val.ok THEN NoParse
        ELSE LET after == SkipWs(s, val.next)
                 its == items \o <<val.v>>
             IN  IF Char(s, after) = "," THEN ParseElements(s, after + 1, its)
                 ELSE IF Char(s, after) = "]"
                 THEN Parsed([k |-> "arr", items |-> its], after + 1)
                 ELSE NoParse

\* json.loads(s): one value and nothing but whitespace around it, or an error.
WholeText(s, r) ==
    IF r.ok /\ SkipWs(s, r.next) > Len(s) THEN [ok |-> TRUE, v |-> r.v]
    ELSE [ok |-> FALSE, v |-> [k |-> "none"]]

json_loads(s) == WholeText(s, ParseValue(s, 1))

----------------------------------------------------------------------------
(* pd.DataFrame(list): a list of objects gives the keys as columns, in the *)
(* order they first appear, and one row per object; a list of scalars one  *)
(* column named 0                                                          *)

NaN == "NaN"

RECURSIVE AddNew(_, _)
AddNew(cols, keys) ==
    IF Len(keys) = 0 THEN cols
    ELSE AddNew(IF \E j \in 1..Len(cols) : cols[j] = Head(keys)
                THEN cols ELSE cols \o <<Head(keys)>>,
                Tail(keys))

RECURSIVE FrameCols(_)
FrameCols(items) ==
    IF Len(items) = 0 THEN <<>>
    ELSE LET rest == FrameCols(SubSeq(items, 1, Len(items) - 1))
             last == items[Len(items)]
         IN  IF last.k = "obj" THEN AddNew(rest, last.keys) ELSE rest

CellText(v) == IF v.k \in {"num", "str"} THEN v.text ELSE "<" \o v.k \o ">"

Cell(obj, col) ==
    LET at == {j \in 1..Len(obj.keys) : obj.keys[j] = col}
    IN  IF at = {} THEN NaN
        ELSE CellText(obj.vals[CHOOSE j \in at : \A h \in at : h <= j])

DataFrame(items) ==
    IF Len(items) > 0 /\ items[1].k = "obj"
    THEN LET cols == FrameCols(items)
         IN  Dataset(cols, [r \in 1..Len(items) |->
                               [c \in 1..Len(cols) |-> Cell(items[r], cols[c])]])
    ELSE IF Len(items) > 0
    THEN Dataset(<<"0">>, [r \in 1..Len(items) |-> <<CellText(items[r])>>])
    ELSE NoData

\* The lists pd.DataFrame is handed here: all objects, or all scalars.
Uniform(items) ==
    \/ \A r \in 1..Len(items) : items[r].k = "obj"
    \/ \A r \in 1..Len(items) : items[r].k \in {"num", "str"}

----------------------------------------------------------------------------
(* The decode step, render_upload_page lines 408-483 and 557-558 *)

Decoded(df, parses) == [ok |-> TRUE, df |-> df, message |-> "", parses |-> parses]

DecodeError(message, parses) ==
    [ok |-> FALSE, df |-> NoData, message |-> message, parses |-> parses]

JsonError == "error: JSON read error"

\* [json.loads(line) for line in content_stripped.split('\n') if line.strip()]
RECURSIVE LoadLines(_)
LoadLines(lines) ==
    IF Len(lines) = 0 THEN [ok |-> TRUE, items |-> <<>>]
    ELSE IF Strip(Head(lines)) = "" THEN LoadLines(Tail(lines))
    ELSE LET one == json_loads(Head(lines))
             rest == LoadLines(Tail(lines))
         IN  IF one.ok /\ rest.ok THEN [ok |-> TRUE, items |-> <<one.v>> \o rest.items]
             ELSE [ok |-> FALSE, items |-> <<>>]

json_lines(content_stripped, tried) ==
    LET loaded == LoadLines(SplitLines(content_stripped))
    IN  IF loaded.ok THEN Decoded(DataFrame(loaded.items), tried \o <<"lines">>)
        ELSE DecodeError(JsonError, tried \o <<"lines">>)

\* The line-delimited parse tried before the single-object parse.
json_object_lines_first(content, content_stripped) ==
    LET first == json_lines(content_stripped, <<>>)
        data == json_loads(content)
    IN  IF first.ok THEN first
        ELSE IF data.ok THEN Decoded(DataFrame(<<data.v>>), <<"lines", "object">>)
        ELSE DecodeError(JsonError, <<"lines", "object">>)

\* elif content_stripped.startswith('{'): the single object, else the lines.
json_object(content, content_stripped) ==
    LET data == json_loads(content)
    IN  IF data.ok THEN Decoded(DataFrame(<<data.v>>), <<"object">>)
        ELSE json_lines(content_stripped, <<"object">>)

\* The branch on the first character of the stripped content (lines 431-455).
decode_json(content) ==
    LET content_stripped == Strip(content)
    IN  IF StartsWith(content_stripped, "[")
        THEN LET data == json_loads(content)
             IN  IF data.ok THEN Decoded(DataFrame(data.v.items), <<"array">>)
                 ELSE DecodeError(JsonError, <<"array">>)
        ELSE IF StartsWith(content_stripped, "{")
        THEN json_object(content, content_stripped)
        ELSE json_lines(content_stripped, <<>>)

\* The decode step: a dataframe, or the error message the page shows. fault
\* "import" is the run in which fastavro and pyarrow are not installed.
Decode(file, file_type, fault) ==
    IF file_type \in {"CSV", "TSV"}
    THEN IF file.ok THEN Decoded(file.df, <<>>)
         ELSE DecodeError("error: file read error", <<>>)
    ELSE IF file_type = "JSON" THEN decode_json(file.content)
    ELSE IF file_type = "PARQUET"
    THEN IF fault = "import" THEN DecodeError("error: file read error: no pyarrow", <<>>)
         ELSE IF file.ok THEN Decoded(file.df, <<>>)
         ELSE DecodeError("error: file read error", <<>>)
    ELSE IF file_type = "AVRO"
    THEN IF fault = "import" THEN DecodeError("error: reading Avro needs fastavro", <<>>)
         ELSE IF file.ok THEN Decoded(file.df, <<>>)
         ELSE DecodeError("error: file read error", <<>>)
    ELSE IF file_type = "ORC"
    THEN IF fault = "import" THEN DecodeError("error: reading ORC needs pyarrow", <<>>)
         ELSE IF file.ok THEN Decoded(file.df, <<>>)
         ELSE DecodeError("error: file read error", <<>>)
    ELSE DecodeError("error: unsupported file format", <<>>)

\* st.text_input(...).upper().replace(" ", "_")
TableName(typed) == Replace(Upper(typed), " ", "_")

----------------------------------------------------------------------------
(* The create-table button, render_upload_page lines 516-555 *)

\* The three options of the "if a table of that name exists" radio.
ModeError == "error"
ModeReplace == "replace (DROP & CREATE)"
ModeAppend == "append (INSERT)"

Modes == {ModeError, ModeReplace, ModeAppend}

RECURSIVE Contains(_, _)
Contains(s, sub) ==
    IF Len(s) < Len(sub) THEN FALSE
    ELSE StartsWith(s, sub) \/ Contains(Tail(s), sub)

Statement(op, table) == [op |-> op, table |-> table]

\* What a script run did: the warehouse and loaded_table it leaves, its
\* add_query_history calls, the statements it sent, the messages it drew, whether
\* save_as_table returned, whether an exception left main(), and the call that raised.
Outcome(t, loaded, calls, issued, said, wrote, escaped, raised) ==
    [tables |-> t, loaded |-> loaded, calls |-> calls, issued |-> issued,
     messages |-> said, write_ok |-> wrote, escaped |-> escaped, raised |-> raised]

\* The except branch clearing the loaded table.
CreateFailed_forgets(t, loaded, issued, calls, said, wrote, table_name, raised, error) ==
    Outcome(t, None,
            calls \o <<Call("CREATE TABLE " \o table_name, Failed, 0)>>,
            issued, said \o <<"error: " \o error>>, wrote, FALSE, raised)

\* The except branch: a failed entry under the bare table name, and st.error.
CreateFailed(t, loaded, issued, calls, said, wrote, table_name, raised, error) ==
    Outcome(t, loaded,
            calls \o <<Call("CREATE TABLE " \o table_name, Failed, 0)>>,
            issued,
            said \o <<IF Contains(Lower(error), "already exists")
                      THEN "error: table already exists"
                      ELSE "error: " \o error>>,
            wrote, FALSE, raised)

\* The DROP issued for every policy but append.
drops_unless_append(if_exists) == if_exists # ModeAppend

\* The DROP never issued.
drops_never(if_exists) == FALSE

\* if if_exists == <replace>: DROP TABLE IF EXISTS
drops_first(if_exists) == if_exists = ModeReplace

\* write.mode("append") for <append>, write.mode("errorifexists") otherwise
write_mode(if_exists) == IF if_exists = ModeAppend THEN "append" ELSE "errorifexists"

\* The try block. fault names the warehouse call that raises a connector error.
create_table(t, loaded, loc, table_name, if_exists, df, fault) ==
    LET path == FullName(loc, table_name)
        drop == Statement("DROP TABLE IF EXISTS", path)
        cdf == Statement("CREATE DATAFRAME", "")
        mode == write_mode(if_exists)
        save == Statement("SAVE AS TABLE " \o mode, path)
        select == Statement("SELECT", path)
        replacing == drops_first(if_exists)
        i1 == IF replacing THEN <<drop>> ELSE <<>>
        t1 == IF replacing THEN DropTableIfExists(t, path) ELSE t
        res == IF fault = "save" THEN Raised(t1, ConnectorError)
               ELSE SaveAsTable(t1, path, table_name, df, mode)
        i2 == i1 \o <<cdf, save>>
        ok_call == Call("CREATE TABLE " \o path, Success, Len(df.rows))
        created == "success: table created"
    IN  IF replacing /\ fault = "drop"
        THEN CreateFailed(t, loaded, i1, <<>>, <<>>, FALSE, table_name, "drop",
                          ConnectorError)
        ELSE IF replacing /\ table_name = ""
        THEN CreateFailed(t, loaded, i1, <<>>, <<>>, FALSE, table_name, "drop",
                          "syntax error")
        ELSE IF ~res.ok
        THEN CreateFailed(t1, loaded, i2, <<>>, <<>>, FALSE, table_name, "save",
                          res.error)
        ELSE IF table_name = ""
        THEN CreateFailed(res.tables, loaded, i2, <<>>, <<>>, TRUE, table_name,
                          "message", "name 'full_table_name' is not defined")
        ELSE IF fault = "preview"
        THEN CreateFailed(res.tables, path, i2 \o <<select>>, <<ok_call>>, <<created>>,
                          TRUE, table_name, "preview", ConnectorError)
        ELSE Outcome(res.tables, path, <<ok_call>>, i2 \o <<select>>, <<created>>,
                     TRUE, FALSE, "none")

----------------------------------------------------------------------------
(* The AI descriptions: get_table_descriptions_with_ai lines 87-165,       *)
(* get_table_columns_with_descriptions lines 167-212, the page lines 613-631 *)

\* What session.sql(...).collect() gives: an exception, or rows of one text cell
\* ("" is a NULL or empty cell).
SqlRaises == [ok |-> FALSE, rows |-> <<>>]

SqlRows(rows) == [ok |-> TRUE, rows |-> rows]

\* result and result[0][0]
HasText(response) == Len(response.rows) > 0 /\ response.rows[1] # ""

EmptyText == [k |-> "str", text |-> ""]

EmptyMap == [k |-> "obj", keys |-> <<>>, vals |-> <<>>]

\* dict.get(key, default)
Get(obj, key, default) ==
    LET at == {j \in 1..Len(obj.keys) : obj.keys[j] = key}
    IN  IF at = {} THEN default ELSE obj.vals[CHOOSE j \in at : \A h \in at : h <= j]

RECURSIVE ScanBack(_, _, _)
ScanBack(s, i, c) ==
    IF i < 1 THEN 0 ELSE IF Char(s, i) = c THEN i ELSE ScanBack(s, i - 1, c)

\* re.search(r'\{.*\}', text, re.DOTALL): from the first "{" to the last "}".
BraceMatch(text) ==
    LET i == ScanTo(text, 1, "{")
        j == ScanBack(text, Len(text), "}")
    IN  IF i > 0 /\ j > i THEN [found |-> TRUE, text |-> SubSeq(text, i, j)]
        ELSE [found |-> FALSE, text |-> ""]

NoDescriptions == [kind |-> "none", table_description |-> EmptyText,
                   column_descriptions |-> EmptyMap]

Descriptions(ai_data) ==
    [kind |-> "record",
     table_description |-> Get(ai_data, "table_description", EmptyText),
     column_descriptions |-> Get(ai_data, "column_descriptions", EmptyMap)]

\* A step of the lookup: it returns a value, raises, or falls through.
Returns(result, calls) == [raised |-> FALSE, returned |-> TRUE, result |-> result,
                           calls |-> calls]

Raises(calls) == [raised |-> TRUE, returned |-> FALSE, result |-> NoDescriptions,
                  calls |-> calls]

FallsThrough(calls) == [raised |-> FALSE, returned |-> FALSE, result |-> NoDescriptions,
                        calls |-> calls]

\* try: ... except Exception: pass
Try(step) == IF step.raised THEN FallsThrough(step.calls) ELSE step

\* json.loads(text) and the two ai_data.get(...): raises on text that is not
\* JSON and on a value that has no get.
ReadDescriptions(ai_data, calls) ==
    IF ~ai_data.ok THEN Raises(calls)
    ELSE IF ai_data.v.k # "obj" THEN Raises(calls)
    ELSE Returns(Descriptions(ai_data.v), calls)

LoadDescriptions(text, calls) == ReadDescriptions(json_loads(text), calls)

\* The body of the first try (lines 96-110).
primary_lookup(primary) ==
    LET calls == <<"AI_GENERATE_TABLE_DESC">>
    IN  IF ~primary.ok THEN Raises(calls)
        ELSE IF HasText(primary) THEN LoadDescriptions(primary.rows[1], calls)
        ELSE FallsThrough(calls)

\* if json_match: json.loads(json_match.group()) (lines 152-160).
LoadMatch(json_match, calls) ==
    IF json_match.found THEN LoadDescriptions(json_match.text, calls)
    ELSE FallsThrough(calls)

\* The body of the second try (lines 116-160).
fallback_lookup(describe, completion, calls) ==
    LET described == calls \o <<"DESCRIBE TABLE">>
        completed == described \o <<"CORTEX.COMPLETE">>
    IN  IF ~describe.ok THEN Raises(described)
        ELSE IF Len(describe.rows) = 0 THEN Returns(NoDescriptions, described)
        ELSE IF ~completion.ok THEN Raises(completed)
        ELSE IF ~HasText(completion) THEN FallsThrough(completed)
        ELSE LoadMatch(BraceMatch(completion.rows[1]), completed)

\* The lookup with the first try's handler missing.
\* The end of the function: what the second try returned, or None (line 165).
OrNone(second) ==
    IF second.returned THEN second ELSE Returns(NoDescriptions, second.calls)

\* What follows the first try: its result, or the second try.
OrFallback(first, describe, completion) ==
    IF first.raised \/ first.returned THEN first
    ELSE OrNone(Try(fallback_lookup(describe, completion, first.calls)))

get_table_descriptions_with_ai_bare(primary, describe, completion) ==
    OrFallback(primary_lookup(primary), describe, completion)

get_table_descriptions_with_ai(primary, describe, completion) ==
    OrFallback(Try(primary_lookup(primary)), describe, completion)

\* ai_descriptions.get('column_descriptions', {}).get(col_name): raises when the
\* column descriptions are not a map.
ColumnDescription(descriptions, col_name) ==
    Get(descriptions.column_descriptions, col_name, EmptyText)

\* get_table_columns_with_descriptions: ([], "") on any exception inside it.
\* The except branch of get_table_columns_with_descriptions (lines 210-212).
NoColumns(ai) == [columns_with_desc |-> <<>>, table_description |-> "", lookup |-> ai]

\* Lines 176-208: the columns joined with the descriptions the lookup gave.
JoinDescriptions(cols, ai) ==
    IF ai.raised THEN NoColumns(ai)
    ELSE IF ai.result.kind = "record" /\ ai.result.column_descriptions.k # "obj"
    THEN NoColumns(ai)
    ELSE [columns_with_desc |->
            [c \in 1..Len(cols) |->
                [name |-> cols[c],
                 ai_description |->
                    IF ai.result.kind = "record"
                    THEN CellText(ColumnDescription(ai.result, cols[c]))
                    ELSE ""]],
          table_description |->
            IF ai.result.kind = "record"
            THEN CellText(ai.result.table_description) ELSE "",
          lookup |-> ai]

get_table_columns_with_descriptions(cols, own_describe, primary, describe, completion) ==
    IF ~own_describe.ok THEN NoColumns(Returns(NoDescriptions, <<>>))
    ELSE JoinDescriptions(cols, get_table_descriptions_with_ai(primary, describe, completion))

\* The toggle, and what Cortex and the warehouse answer to the lookup's queries.
Cortex(primary, describe, completion, own_describe) ==
    [on |-> TRUE, primary |-> primary, describe |-> describe,
     completion |-> completion, own_describe |-> own_describe]

ToggleOff == [on |-> FALSE, primary |-> SqlRaises, describe |-> SqlRaises,
              completion |-> SqlRaises, own_describe |-> SqlRaises]

NoLookup ==
    [looked |-> FALSE, cortex |-> ToggleOff, raised |-> FALSE, calls |-> <<>>,
     result |-> NoDescriptions, columns_with_desc |-> <<>>, table_description |-> "",
     note |-> ""]

\* Lines 621-631: the lookup, then the overview or the warning.
Overview(cortex, got) ==
    [looked |-> TRUE, cortex |-> cortex, raised |-> got.lookup.raised,
     calls |-> got.lookup.calls, result |-> got.lookup.result,
     columns_with_desc |-> got.columns_with_desc,
     table_description |-> got.table_description,
     note |-> IF got.table_description # "" THEN "info: table overview"
              ELSE "warning: no table overview"]

describe_with_ai(cols, cortex) ==
    IF ~cortex.on THEN NoLookup
    ELSE Overview(cortex,
                  get_table_columns_with_descriptions(
                      cols, cortex.own_describe, cortex.primary, cortex.describe,
                      cortex.completion))

----------------------------------------------------------------------------
(* One script run on the upload page: render_sidebar, then render_upload_page *)

Quiet(t, loaded, said) ==
    Outcome(t, loaded, <<>>, <<>>, said, FALSE, FALSE, "none")

\* A failure the page catches and only reports.
Reported(t, loaded, said, raised) ==
    Outcome(t, loaded, <<>>, <<>>, said, FALSE, FALSE, raised)

\* An exception nothing catches: the run ends there.
Escapes(t, loaded, raised) ==
    Outcome(t, loaded, <<>>, <<>>, <<>>, FALSE, TRUE, raised)

\* The run with the create-table click honoured before the decode's outcome.
upload_run_unguarded(t, loaded, loc, file, d, table_name, if_exists, click, fault) ==
    IF fault = "sidebar" THEN Escapes(t, loaded, "sidebar")
    ELSE IF file = NoFile THEN Quiet(t, loaded, <<"info: upload a file">>)
    ELSE IF click THEN create_table(t, loaded, loc, table_name, if_exists, d.df, fault)
    ELSE IF ~d.ok THEN Reported(t, loaded, <<d.message>>, "decode")
    ELSE Quiet(t, loaded, <<"preview">>)

\* d is what the decode step made of the file.
upload_run(t, loaded, loc, file, d, table_name, if_exists, click, fault) ==
    IF fault = "sidebar" THEN Escapes(t, loaded, "sidebar")
    ELSE IF file = NoFile THEN Quiet(t, loaded, <<"info: upload a file">>)
    ELSE IF ~d.ok THEN Reported(t, loaded, <<d.message>>, "decode")
    ELSE IF ~click THEN Quiet(t, loaded, <<"preview">>)
    ELSE create_table(t, loaded, loc, table_name, if_exists, d.df, fault)

BlankRun ==
    [page |-> "none", loc |-> "", click |-> FALSE, file |-> "", decoded |-> FALSE,
     if_exists |-> "", table_name |-> "", target |-> "", df |-> NoData,
     before |-> << >>, loaded_before |-> None, issued |-> <<>>, write_ok |-> FALSE,
     fault |-> "none", raised |-> "none",
     messages |-> <<>>, escaped |-> FALSE, recorded |-> 0,
     listed |-> <<>>, default_table |-> "", selected_table |-> "", edited_sql |-> "",
     file_type |-> "", content |-> "", parses |-> <<>>, ai |-> NoLookup]

Unbuilt ==
    [present |-> FALSE, full_table |-> "", q |-> DefaultQuery, conditions |-> <<>>,
     select_clause |-> "", where_parts |-> <<>>, conditions_text |-> "",
     where_clause |-> "", order_clause |-> "", sql_lines |-> <<>>, sql |-> ""]

UploadFaults == {"none", "sidebar", "import", "drop", "save", "preview"}

RunUpload(loc, file, typed, if_exists, click, fault) ==
    /\ current_mode = "upload"
    /\ \E table_name \in {TableName(typed)} :
       \E rendered \in {fault # "sidebar" /\ file # NoFile} :
       \E file_type \in {IF rendered THEN detect_file_type(file.name) ELSE ""} :
       \E d \in {IF rendered THEN Decode(file, file_type, fault)
                 ELSE DecodeError("", <<>>)} :
       \E out \in {upload_run(tables, loaded_table, loc, file, d, table_name,
                              if_exists, click, fault)} :
           /\ tables' = out.tables
           /\ loaded_table' = out.loaded
           /\ query_history' = RecordAll(query_history, out.calls, Len(log) + 1)
           /\ log' = log \o Stamped(out.calls, Len(log) + 1)
           /\ run' = IF click /\ d.ok
                      THEN [BlankRun EXCEPT
                              !.page = "upload", !.loc = loc, !.file = file.name,
                              !.file_type = file_type, !.content = file.content,
                              !.parses = d.parses,
                              !.decoded = TRUE, !.click = TRUE,
                              !.if_exists = if_exists, !.table_name = table_name,
                              !.target = FullName(loc, table_name), !.df = d.df,
                              !.before = tables, !.loaded_before = loaded_table,
                              !.issued = out.issued, !.fault = fault,
                              !.raised = out.raised,
                              !.write_ok = out.write_ok, !.messages = out.messages,
                              !.recorded = Len(out.calls)]
                      ELSE [BlankRun EXCEPT
                              !.page = "upload", !.file = file.name,
                              !.file_type = file_type, !.content = file.content,
                              !.parses = d.parses,
                              !.decoded = d.ok, !.click = click, !.df = d.df,
                              !.before = tables, !.loaded_before = loaded_table,
                              !.issued = out.issued, !.write_ok = out.write_ok,
                              !.recorded = Len(out.calls),
                              !.fault = fault, !.raised = out.raised,
                              !.messages = out.messages, !.escaped = out.escaped]
    /\ UNCHANGED <<current_mode, built>>

----------------------------------------------------------------------------
(* One script run on the explore page: render_sidebar, then render_explore_page *)

\* SHOW TABLES lists a schema's tables by name.
\* The names SHOW TABLES may return, in the order it returns them.
Catalog ==
    <<"ATMP_X", "MY_TEMP_", "ORDERS", "SNOWPARK_TEMP_7", "TEMPLATE", "TEMP_A",
      "TMP_LOAD", "WEB_SALES", "_TEMP1", "snowpark_temp_x", "tmp_lower">>

show_tables(t, loc) == SelectSeq(Catalog, LAMBDA n : FullName(loc, n) \in DOMAIN t)

excluded_prefixes == {"SNOWPARK_TEMP", "TEMP_", "_TEMP", "TMP_"}

\* The filter on the names as they are, not upper-cased.
get_tables_cased(t, loc) ==
    SelectSeq(show_tables(t, loc),
              LAMBDA n : ~(\E prefix \in excluded_prefixes : StartsWith(n, prefix)))

get_tables(t, loc) ==
    SelectSeq(show_tables(t, loc),
              LAMBDA n : ~(\E prefix \in excluded_prefixes : StartsWith(Upper(n), prefix)))

\* s.split('.')[-1]
RECURSIVE LastPart(_)
LastPart(s) ==
    IF s = "" THEN ""
    ELSE IF Contains(Tail(s), ".") THEN LastPart(Tail(s))
    ELSE IF Head(s) = "." THEN Tail(s)
    ELSE s

InSeq(x, seq) == \E i \in 1..Len(seq) : seq[i] = x

\* The table the selectbox shows first (lines 587-598).
default_table(listed, loaded) ==
    IF loaded # None /\ loaded # "" /\ InSeq(LastPart(loaded), listed)
    THEN LastPart(loaded)
    ELSE listed[1]

Range(seq) == {seq[i] : i \in 1..Len(seq)}

QueryColumns(q) ==
    Range(q.selected_columns) \cup {q.rows[i].column : i \in 1..Len(q.rows)}
    \cup ({q.order_by} \ {NoOrder})

\* An assembly that reads the session: it selects from the loaded table.
Build_session(full_table, q) ==
    LET conds == where_conditions(q.rows)
        from == IF loaded_table = None THEN full_table ELSE loaded_table
    IN  [present |-> TRUE, full_table |-> full_table, q |-> q, conditions |-> conds,
         select_clause |-> select_clause(q.selected_columns, q.distinct),
         where_parts |-> where_parts(conds),
         conditions_text |-> conditions_text(conds),
         where_clause |-> where_clause(conds, q.custom_where),
         order_clause |-> order_clause(q.order_by, q.order_dir),
         sql_lines |-> sql_lines(from, q),
         sql |-> generated_sql(from, q)]

Build(full_table, q) ==
    LET conds == where_conditions(q.rows)
        lines == sql_lines(full_table, q)
    IN  [present |-> TRUE, full_table |-> full_table, q |-> q, conditions |-> conds,
         select_clause |-> select_clause(q.selected_columns, q.distinct),
         where_parts |-> where_parts(conds),
         conditions_text |-> conditions_text(conds),
         where_clause |-> where_clause(conds, q.custom_where),
         order_clause |-> order_clause(q.order_by, q.order_dir),
         sql_lines |-> lines,
         sql |-> generated_sql(full_table, q)]

\* The execute button (lines 859-924): the edited text is run as it stands.
execute_sql(t, loaded, edited_sql, fault, nrows) ==
    IF fault = "execute"
    THEN Outcome(t, loaded, <<Call(edited_sql, Failed, 0)>>,
                 <<Statement("EXECUTE", edited_sql)>>,
                 <<"error: query failed: " \o ConnectorError>>, FALSE, FALSE, "execute")
    ELSE Outcome(t, loaded, <<Call(edited_sql, Success, nrows)>>,
                 <<Statement("EXECUTE", edited_sql)>>,
                 <<"success: query ran">>, FALSE, FALSE, "none")

ExploreFaults == {"none", "sidebar", "list", "describe", "execute"}

\* pick is the table chosen in the selectbox ("" leaves the default), edit the
\* text typed over the generated SQL ("" leaves it as generated).
ExploreRun(loc, pick, q, edit, execute, fault, nrows, cortex) ==
    /\ current_mode = "explore"
    /\ \E listed \in {get_tables(tables, loc)} :
       \E reached \in {fault \notin {"sidebar", "list"} /\ Len(listed) > 0} :
       \E default \in {IF reached THEN default_table(listed, loaded_table) ELSE ""} :
       \E selected_table \in {IF pick = "" THEN default ELSE pick} :
       \E opened \in {reached /\ fault # "describe"} :
       \E b \in {IF opened THEN Build(FullName(loc, selected_table), q) ELSE Unbuilt} :
       \E ai \in {IF opened THEN describe_with_ai(tables[b.full_table].cols, cortex)
                  ELSE NoLookup} :
       \E edited_sql \in {IF edit = "" THEN b.sql ELSE edit} :
       \E out \in {IF fault \in {"sidebar", "list"}
                   THEN Escapes(tables, loaded_table, fault)
                   ELSE IF ~reached
                   THEN Quiet(tables, loaded_table, <<"warning: no tables in this schema">>)
                   ELSE IF fault = "describe"
                   THEN Escapes(tables, loaded_table, "describe")
                   ELSE IF execute
                   THEN execute_sql(tables, loaded_table, edited_sql, fault, nrows)
                   ELSE Quiet(tables, loaded_table, <<>>)} :
           /\ reached => (pick = "" \/ InSeq(pick, listed))
           /\ ~reached => pick = ""
           /\ opened => /\ QueryColumns(q) \subseteq Range(tables[b.full_table].cols)
                        /\ nrows <= Len(tables[b.full_table].rows)
           /\ tables' = out.tables
           /\ loaded_table' = out.loaded
           /\ query_history' = RecordAll(query_history, out.calls, Len(log) + 1)
           /\ log' = log \o Stamped(out.calls, Len(log) + 1)
           /\ built' = b
           /\ run' = [BlankRun EXCEPT
                        !.page = "explore", !.loc = loc,
                        !.click = execute /\ opened,
                        !.before = tables, !.loaded_before = loaded_table,
                        !.issued = out.issued, !.raised = out.raised,
                        !.fault = IF out.raised = "none" THEN "none" ELSE fault,
                        !.messages = out.messages, !.escaped = out.escaped,
                        !.recorded = Len(out.calls),
                        !.listed = IF fault \in {"sidebar", "list"} THEN <<>> ELSE listed,
                        !.default_table = default,
                        !.selected_table = IF reached THEN selected_table ELSE "",
                        !.edited_sql = IF execute /\ opened THEN edited_sql ELSE "",
                        !.ai = ai]
    /\ UNCHANGED current_mode

\* The run with the AI descriptions toggled off.
RunExplore(loc, pick, q, edit, execute, fault, nrows) ==
    ExploreRun(loc, pick, q, edit, execute, fault, nrows, ToggleOff)

\* The run with the toggle on, as the page first shows it.
RunExploreDescribed(loc, pick, cortex) ==
    ExploreRun(loc, pick, DefaultQuery, "", FALSE, "none", 0, cortex)

----------------------------------------------------------------------------
(* The sidebar's two mode buttons (lines 252-260) and the explore page's  *)
(* "go to upload" button, shown when the schema lists no table (580-585)   *)

ClickUploadMode ==
    /\ current_mode' = "upload"
    /\ run' = [BlankRun EXCEPT !.page = "sidebar", !.before = tables,
                               !.loaded_before = loaded_table]
    /\ built' = Unbuilt
    /\ UNCHANGED <<loaded_table, query_history, tables, log>>

ClickExploreMode ==
    /\ current_mode' = "explore"
    /\ run' = [BlankRun EXCEPT !.page = "sidebar", !.before = tables,
                               !.loaded_before = loaded_table]
    /\ built' = Unbuilt
    /\ UNCHANGED <<loaded_table, query_history, tables, log>>

ClickGoToUpload(loc) ==
    /\ current_mode = "explore"
    /\ Len(get_tables(tables, loc)) = 0
    /\ current_mode' = "upload"
    /\ run' = [BlankRun EXCEPT !.page = "explore", !.loc = loc, !.before = tables,
                               !.loaded_before = loaded_table]
    /\ built' = Unbuilt
    /\ UNCHANGED <<loaded_table, query_history, tables, log>>

----------------------------------------------------------------------------
(* What the user and the warehouse may supply *)

Week80 == "FROSTYFRIDAY.WEEK80"

EmptyWarehouse == [x \in {} |-> NoData]

StockedWarehouse ==
    [x \in {FullName(Week80, "ORDERS"), FullName(Week80, "TMP_LOAD"),
            FullName(Week80, "WEB_SALES")} |->
        IF x = FullName(Week80, "WEB_SALES") THEN OldSales ELSE Events]

TypedNames == {"web sales", ""}

LongSql ==
    "SELECT \"AMOUNT\", \"STATUS\" FROM FROSTYFRIDAY.WEEK80.WEB_SALES WHERE \"AMOUNT\" > 1000 AND \"STATUS\" = 'ACTIVE' ORDER BY \"AMOUNT\" DESC"

Edits == {"", LongSql}

CondColumns == {"AMOUNT", "STATUS"}
CondOps == {">", "=", "IS NULL"}
CondValues == {"", "1000", "'ACTIVE'"}

\* A condition row as typed: no value box is shown for a nullary operator.
CondRows ==
    {r \in [column : CondColumns, operator : CondOps, value : CondValues,
            logic : {"AND", "OR"}] :
        r.operator \in NullaryOps => r.value = ""}

\* 0..n rows; the last row shows no logic box.
RowSeqs(n) ==
    UNION {{rows \in [1..k -> CondRows] : k > 0 => rows[k].logic = "AND"} : k \in 0..n}

RawFilters == {"", "REGION = 'JP'"}

ExampleRows ==
    <<[column |-> "AMOUNT", operator |-> ">", value |-> "1000", logic |-> "AND"],
      [column |-> "STATUS", operator |-> "=", value |-> "'ACTIVE'", logic |-> "AND"]>>

\* The filter widgets varied, the other widgets as first shown.
FilterQueries(n) ==
    {[DefaultQuery EXCEPT !.rows = rows, !.custom_where = raw] :
        rows \in RowSeqs(n), raw \in RawFilters}

\* The other widgets varied, over no filter and over the example filter.
OptionQueries ==
    {[selected_columns |-> cols, rows |-> rows, custom_where |-> raw,
      order_by |-> ord[1], order_dir |-> ord[2], limit |-> limit, distinct |-> distinct] :
        cols \in {<<>>, <<"AMOUNT">>, <<"STATUS", "AMOUNT">>},
        rows \in {<<>>, ExampleRows},
        raw \in RawFilters,
        ord \in {<<NoOrder, "ASC">>, <<"AMOUNT", "ASC">>, <<"STATUS", "DESC">>},
        limit \in {LimitMin, LimitDefault, LimitMax},
        distinct \in BOOLEAN}

AssembleQueries == FilterQueries(MaxRows) \cup OptionQueries

SessionQueries == {DefaultQuery}

\* File names: a few stems under extensions in several casings, extensions the
\* uploader does not list, and endings that only resemble one.
NameStems == {"data", "Web Sales", "x.csv", ".orc", "a.json.b", "JSONL"}

NameEndings ==
    {".csv", ".CSV", ".Csv", ".tsv", ".TSV", ".json", ".JSON", ".jsonl", ".JSONL",
     ".JsonL", ".parquet", ".PARQUET", ".Parquet", ".avro", ".AVRO", ".orc", ".ORC",
     ".txt", ".xlsx", ".csv.gz", ".json.bak", "csv", "", ".jso", ".orcs", ".tsv ",
     "_json", ".avro.", ".parquet1"}

\* Lines of a JSON file: objects, an array, a number, the pieces of an object
\* spread over lines, a line cut short, and lines of whitespace.
JsonLines ==
    {"{\"a\": 1}", "{\"b\": 2, \"a\": 3}", "[{\"a\": 1}, {\"a\": 2}]", "7",
     "{", "\"a\": 1", "}", "{\"a\": ", "", "  "}

RECURSIVE Texts(_)
Texts(n) ==
    IF n = 1 THEN JsonLines
    ELSE Texts(n - 1)
         \cup {text \o "\n" \o line : text \in Texts(n - 1), line \in JsonLines}

\* The list the decode of a JSON text hands to pd.DataFrame, if it gets there.
Handed(content) ==
    LET data == json_loads(content)
        loaded == LoadLines(SplitLines(Strip(content)))
        by_line == IF loaded.ok THEN loaded.items ELSE <<>>
    IN  IF StartsWith(Strip(content), "[")
        THEN IF data.ok THEN data.v.items ELSE <<>>
        ELSE IF StartsWith(Strip(content), "{")
        THEN IF data.ok THEN <<data.v>> ELSE by_line
        ELSE by_line

JsonFiles ==
    {File("rows.jsonl", content, FALSE, NoData) :
        content \in {text \in Texts(MaxLines) : Uniform(Handed(text))}}

\* Files of the formats a library reads, accepted and rejected by it, and a
\* file of no listed format.
LibraryFiles ==
    {File(name, "", ok, IF ok THEN Sales ELSE NoData) :
        name \in {"sales.csv", "sales.tsv", "sales.parquet", "sales.avro", "sales.orc",
                  "sales.txt"},
        ok \in BOOLEAN}

DescriptionsJson ==
    "{\"table_description\": \"orders\", \"column_descriptions\": {\"ID\": \"key\"}}"

\* The answers to the AI_GENERATE_TABLE_DESC query: an error, no row, an empty
\* cell, text that is not JSON, JSON that is no object, the descriptions, an
\* object without the column descriptions, an object with column descriptions
\* that are no map.
PrimaryAnswers ==
    {SqlRaises, SqlRows(<<>>), SqlRows(<<"">>), SqlRows(<<"not available">>),
     SqlRows(<<"[1]">>), SqlRows(<<DescriptionsJson>>),
     SqlRows(<<"{\"table_description\": \"orders\"}">>),
     SqlRows(<<"{\"column_descriptions\": \"none\"}">>)}

\* The answers to the CORTEX.COMPLETE query: an error, no row, an empty cell,
\* prose without an object, braces around no JSON, the descriptions inside
\* prose, the descriptions alone.
CompletionAnswers ==
    {SqlRaises, SqlRows(<<>>), SqlRows(<<"">>), SqlRows(<<"I cannot tell.">>),
     SqlRows(<<"{table: orders}">>),
     SqlRows(<<"Here it is: " \o DescriptionsJson \o " Anything else?">>),
     SqlRows(<<DescriptionsJson>>)}

DescribeAnswers == {SqlRaises, SqlRows(<<>>), SqlRows(<<"ID (NUMBER)">>)}

CortexAnswers ==
    {Cortex(primary, describe, completion, own_describe) :
        primary \in PrimaryAnswers, describe \in DescribeAnswers,
        completion \in CompletionAnswers,
        own_describe \in {SqlRaises, SqlRows(<<"ID (NUMBER)">>)}}

DetectNames == {stem \o ending : stem \in NameStems, ending \in NameEndings}

----------------------------------------------------------------------------
(* The specifications *)

\* The files of Files that decode.
GoodFiles == {f \in Files : Decode(f, detect_file_type(f.name), "none").ok}

Init ==
    /\ loaded_table = None
    /\ query_history = <<>>
    /\ current_mode = "upload"
    /\ tables \in {EmptyWarehouse, StockedWarehouse}
    /\ log = <<>>
    /\ run = BlankRun
    /\ built = Unbuilt

\* A button may be clicked while the behaviour has records left to make.
Clicks(max) == IF Len(log) < max THEN BOOLEAN ELSE {FALSE}

\* The calls of the create-table handler that may raise a connector error.
CreateFaults(if_exists) ==
    {"none", "save", "preview"} \cup (IF if_exists = ModeReplace THEN {"drop"} ELSE {})

\* The create-table button is only drawn under a decoded file; the table-name
\* and conflict-policy widgets only matter to the click.
Next ==
    \/ ClickUploadMode
    \/ ClickExploreMode
    \/ \E loc \in Locations : ClickGoToUpload(loc)
    \/ \E loc \in Locations, file \in Files \cup {NoFile}, fault \in {"none", "sidebar"} :
            RunUpload(loc, file, "", ModeError, FALSE, fault)
    \/ \E loc \in Locations, file \in GoodFiles, typed \in TypedNames,
          if_exists \in Modes, click \in Clicks(MaxClicks) \ {FALSE} :
       \E fault \in CreateFaults(if_exists) :
            RunUpload(loc, file, typed, if_exists, click, fault)
    \/ \E loc \in Locations, pick \in {"", "ORDERS", "TMP_LOAD", "WEB_SALES"},
          q \in SessionQueries,
          fault \in ExploreFaults \ {"execute"} :
            RunExplore(loc, pick, q, "", FALSE, fault, 0)
    \/ \E loc \in Locations, pick \in {""}, q \in SessionQueries,
          edit \in Edits, execute \in Clicks(MaxClicks) \ {FALSE},
          fault \in {"none", "execute"} :
            RunExplore(loc, pick, q, edit, execute, fault, IF fault = "none" THEN 1 ELSE 0)

Spec == Init /\ [][Next]_vars

\* The session of a user who only runs queries, long enough to overflow the log.
NextHistory ==
    \/ ClickExploreMode
    \/ \E execute \in Clicks(MaxRecords), fault \in {"none", "execute"} :
            RunExplore(Week80, "", DefaultQuery, "", execute, fault, 1)

SpecHistory == Init /\ [][NextHistory]_vars

\* The explore page re-rendered as the user fills in the query widgets.
\* What a render assembles depends on the widgets alone, so every assembled
\* text is reached by the first render after the mode button.
NextAssemble ==
    \/ ClickExploreMode
    \/ /\ ~built.present
       /\ \E pick \in {"", "WEB_SALES"}, q \in AssembleQueries :
            RunExplore(Week80, pick, q, "", FALSE, "none", 0)

SpecAssemble == Init /\ [][NextAssemble]_vars

\* A readable file under each of the names.
DetectFiles == {File(name, "", TRUE, Events) : name \in DetectNames}

\* Files of every kind of name handed to the upload page, one after another.
NextDetect ==
    \/ ClickUploadMode
    \/ \E file \in DetectFiles :
            RunUpload(Week80, file, "", ModeError, FALSE, "none")

SpecDetect == Init /\ [][NextDetect]_vars

\* Files of every content handed to the upload page, before and after a table
\* was loaded. What a render makes of a file depends on the file alone, so
\* each file is shown to the first render after the mode button. The last
\* disjunct delivers a click on the create-table button to a run whose decode
\* fails, whatever that run draws.
NextDecode ==
    \/ ClickUploadMode
    \/ /\ loaded_table = None
       /\ \E file \in GoodFiles :
            RunUpload(Week80, file, "web sales", ModeReplace, TRUE, "none")
    \/ /\ run.page # "upload"
       /\ \E file \in JsonFiles :
            RunUpload(Week80, file, "", ModeError, FALSE, "none")
    \/ /\ run.page # "upload"
       /\ \E file \in LibraryFiles, fault \in {"none", "import"} :
            RunUpload(Week80, file, "", ModeError, FALSE, fault)
    \/ /\ run.page # "upload"
       /\ \E file \in JsonFiles \cup LibraryFiles, fault \in {"none", "import"} :
            /\ file.content = "" \/ fault = "none"
            /\ ~Decode(file, detect_file_type(file.name), fault).ok
            /\ RunUpload(Week80, file, "web sales", ModeReplace, TRUE, fault)

SpecDecode == Init /\ [][NextDecode]_vars

\* A schema holding any of the catalog's tables.
InitTables ==
    /\ loaded_table = None
    /\ query_history = <<>>
    /\ current_mode = "upload"
    /\ tables \in {[x \in {FullName(Week80, n) : n \in names} |-> Events] :
                    names \in SUBSET Range(Catalog)}
    /\ log = <<>>
    /\ run = BlankRun
    /\ built = Unbuilt

NextTables ==
    \/ ClickExploreMode
    \/ RunExplore(Week80, "", DefaultQuery, "", FALSE, "none", 0)

SpecTables == InitTables /\ [][NextTables]_vars

\* A warehouse with a second schema, which holds tables of the same names.
Week81 == "FROSTYFRIDAY.WEEK81"

TwoSchemas ==
    [x \in {FullName(Week80, "ORDERS"), FullName(Week81, "ORDERS"),
            FullName(Week81, "WEB_SALES"), FullName(Week81, "TMP_LOAD")} |->
        IF x = FullName(Week81, "WEB_SALES") THEN OldSales ELSE Events]

InitSchemas ==
    /\ loaded_table = None
    /\ query_history = <<>>
    /\ current_mode = "upload"
    /\ tables = TwoSchemas
    /\ log = <<>>
    /\ run = BlankRun
    /\ built = Unbuilt

\* The user loads files into either schema and opens the explore page on either.
NextSchemas ==
    \/ ClickUploadMode
    \/ ClickExploreMode
    \/ \E loc \in {Week80, Week81}, file \in GoodFiles, typed \in TypedNames,
          if_exists \in Modes, click \in Clicks(MaxClicks) \ {FALSE} :
            RunUpload(loc, file, typed, if_exists, click, "none")
    \/ \E loc \in {Week80, Week81}, pick \in {"", "ORDERS"} :
            RunExplore(loc, pick, DefaultQuery, "", FALSE, "none", 0)

SpecSchemas == InitSchemas /\ [][NextSchemas]_vars

\* The explore page opened on a table under every answer of Cortex. What the
\* lookup returns depends on the answers alone, so each is given to the first
\* render after the mode button.
NextDescribe ==
    \/ ClickExploreMode
    \/ /\ ~built.present
       /\ \E pick \in {"", "WEB_SALES"}, cortex \in CortexAnswers \cup {ToggleOff} :
            RunExploreDescribed(Week80, pick, cortex)

SpecDescribe == Init /\ [][NextDescribe]_vars

----------------------------------------------------------------------------
(* The claims *)

Min(a, b) == IF a <= b THEN a ELSE b

\* C1: the history log holds at most 10 entries, newest first: it is always the
\* last min(n, 10) of the n records made so far, in reverse order of recording,
\* so that once more than 10 were made exactly the oldest are missing.
C1_HistoryNewestTen ==
    /\ Len(query_history) <= 10
    /\ Len(query_history) = Min(Len(log), 10)
    /\ \A i \in 1..Len(query_history) : query_history[i] = log[Len(log) - i + 1]

\* Eleven records were made: the first is gone, the second is the oldest kept.
C1_Witness ==
    /\ Len(log) = 11
    /\ Len(query_history) = 10
    /\ query_history[10] = log[2]
    /\ query_history[1] = log[11]
    /\ \A i \in 1..10 : query_history[i] # log[1]

CreateClicked == run.page = "upload" /\ run.click

Dropped(issued) == \E i \in 1..Len(issued) : issued[i].op = "DROP TABLE IF EXISTS"

\* C2: a create-table click under the error policy on a table that exists fails,
\* sends no DROP and leaves the warehouse as it was; the error shown is the
\* table-exists one whenever the warehouse answered the write.
C2_ErrorPolicyKeepsTable ==
    (CreateClicked /\ run.if_exists = ModeError /\ run.target \in DOMAIN run.before)
    => /\ ~run.write_ok
       /\ ~Dropped(run.issued)
       /\ tables = run.before
       /\ tables[run.target] = run.before[run.target]
       /\ run.recorded = 1 /\ query_history[1].status = Failed
       /\ run.fault = "none" => run.messages = <<"error: table already exists">>

C2_Witness ==
    /\ CreateClicked /\ run.if_exists = ModeError /\ run.fault = "none"
    /\ run.target \in DOMAIN run.before
    /\ run.before[run.target] # run.df
    /\ run.messages = <<"error: table already exists">>

\* C3: every failure of a decoder or warehouse call during a run is caught,
\* rendered as a message and recorded in the history as a failed entry; none
\* escapes the page render.
C3_EveryFailureCaughtAndRecorded ==
    run.raised # "none"
    => /\ ~run.escaped
       /\ run.messages # <<>>
       /\ run.recorded >= 1
       /\ query_history # <<>> /\ query_history[1].status = Failed

LogicTokens == {"AND", "OR"}

IsLogicToken(part) == part \in LogicTokens

IsConditionText(part) == part \notin LogicTokens

\* C4: in the assembled WHERE parts a logic token stands after every emitted
\* condition but the last and nowhere else: the parts alternate condition,
\* token, condition and never end with AND or OR.
C4_NoDanglingLogic ==
    built.present
    => LET parts == built.where_parts
           n == Len(built.conditions)
       IN  /\ Len(parts) = (IF n = 0 THEN 0 ELSE 2 * n - 1)
           /\ \A i \in 1..Len(parts) : IsLogicToken(parts[i]) <=> (i % 2 = 0)
           /\ Len(parts) > 0 => ~IsLogicToken(parts[Len(parts)])

Emitted(row) == row.operator \in {"IS NULL", "IS NOT NULL"} \/ row.value # ""

ExpectedConditionText(row) ==
    IF row.operator \in {"IS NULL", "IS NOT NULL"}
    THEN "\"" \o row.column \o "\" " \o row.operator
    ELSE "\"" \o row.column \o "\" " \o row.operator \o " " \o row.value

ExampleWhere == "\"AMOUNT\" > 1000 AND \"STATUS\" = 'ACTIVE'"

\* C5: the condition texts among the WHERE parts are, in input order, those of
\* the rows that were emitted, each the quoted column, a space, the operator
\* and, unless the operator is IS NULL / IS NOT NULL, a space and the value as
\* typed; the parts are joined by single spaces; the rows AMOUNT > 1000 AND,
\* STATUS = 'ACTIVE' give "AMOUNT" > 1000 AND "STATUS" = 'ACTIVE'.
C5_ConditionRendering ==
    built.present
    => LET kept == SelectSeq(built.q.rows, Emitted)
           texts == SelectSeq(built.where_parts, IsConditionText)
       IN  /\ Len(texts) = Len(kept)
           /\ \A i \in 1..Len(kept) : texts[i] = ExpectedConditionText(kept[i])
           /\ built.conditions_text = Join(built.where_parts, " ")
           /\ built.q.rows = ExampleRows => built.conditions_text = ExampleWhere

C5_Witness ==
    /\ built.present
    /\ built.q.rows = ExampleRows
    /\ built.q.custom_where = ""
    /\ built.where_clause = ExampleWhere

\* C6: with a raw filter the WHERE clause is "(<conditions text>) AND (<raw
\* filter>)" when the conditions text is not empty and the raw filter alone when
\* it is; without a raw filter it is the conditions text.
C6_RawFilterCombination ==
    built.present
    => LET raw == built.q.custom_where
           text == built.conditions_text
       IN  /\ (raw # "" /\ text # "")
              => built.where_clause = "(" \o text \o ") AND (" \o raw \o ")"
           /\ (raw # "" /\ text = "") => built.where_clause = raw
           /\ raw = "" => built.where_clause = text

C6_Witness ==
    /\ built.present
    /\ built.q.rows = ExampleRows
    /\ built.q.custom_where = "REGION = 'JP'"
    /\ built.where_clause =
         "(\"AMOUNT\" > 1000 AND \"STATUS\" = 'ACTIVE') AND (REGION = 'JP')"

ExpectedSelectList(cols) ==
    IF cols = <<>> THEN "*"
    ELSE Join([i \in 1..Len(cols) |-> "\"" \o cols[i] \o "\""], ", ")

\* C7: the SELECT list is "*" when no column is selected and otherwise the
\* selected names, each in double quotes, joined by ", " in the order given;
\* it is prefixed with "DISTINCT " once when distinct is set and not otherwise.
C7_SelectList ==
    built.present
    => LET cols == built.q.selected_columns
       IN  /\ built.select_clause =
                (IF built.q.distinct THEN "DISTINCT " ELSE "") \o ExpectedSelectList(cols)
           /\ built.sql_lines[1] = "SELECT " \o built.select_clause
           /\ (cols = <<>> /\ ~built.q.distinct) => built.select_clause = "*"
           /\ (cols = <<"STATUS", "AMOUNT">> /\ built.q.distinct)
              => built.select_clause = "DISTINCT \"STATUS\", \"AMOUNT\""

C7_Witness ==
    /\ built.present
    /\ built.q.distinct
    /\ built.q.selected_columns = <<"STATUS", "AMOUNT">>
    /\ built.sql_lines[1] = "SELECT DISTINCT \"STATUS\", \"AMOUNT\""

\* C8: the generated SQL is the lines SELECT, FROM <db.schema.table>, WHERE,
\* ORDER BY, LIMIT in that order, one per line: WHERE is there exactly when the
\* combined where clause is not empty, ORDER BY <quoted column> ASC|DESC exactly
\* when an order column was chosen, LIMIT always and last, with 1..100000.
C8_LineOrder ==
    built.present
    => LET q == built.q
           w == built.where_clause
           chosen == q.order_by # NoOrder
           lines == built.sql_lines
           n == Len(lines)
           iw == 3
           io == IF w # "" THEN 4 ELSE 3
       IN  /\ n = 3 + (IF w # "" THEN 1 ELSE 0) + (IF chosen THEN 1 ELSE 0)
           /\ StartsWith(lines[1], "SELECT ")
           /\ lines[2] = "FROM " \o built.full_table
           /\ w # "" => lines[iw] = "WHERE " \o w
           /\ chosen => /\ lines[io] = "ORDER BY \"" \o q.order_by \o "\" " \o q.order_dir
                        /\ q.order_dir \in {"ASC", "DESC"}
           /\ lines[n] = "LIMIT " \o ToString(q.limit)
           /\ q.limit \in 1..100000
           /\ \A i \in 1..(n - 1) : ~StartsWith(lines[i], "LIMIT ")
           /\ w = "" => \A i \in 1..n : ~StartsWith(lines[i], "WHERE ")
           /\ ~chosen => \A i \in 1..n : ~StartsWith(lines[i], "ORDER BY ")
           /\ built.sql = Join(lines, "\n")

C8_Witness ==
    /\ built.present
    /\ built.where_clause # ""
    /\ built.q.order_by = "STATUS"
    /\ Len(built.sql_lines) = 5
    /\ built.sql_lines[3] = "WHERE " \o built.where_clause
    /\ built.sql_lines[4] = "ORDER BY \"STATUS\" DESC"
    /\ built.sql_lines[5] = "LIMIT 100000"

\* C9: under the replace policy the first statement sent is DROP TABLE IF EXISTS
\* on the target, before the write, whether or not the table exists, and a write
\* that succeeded leaves the target holding exactly the uploaded dataset; under
\* the error and append policies no DROP is sent.
C9_ReplaceDropsFirst ==
    CreateClicked
    => /\ run.if_exists = ModeReplace
          => /\ Len(run.issued) >= 1
             /\ run.issued[1] = Statement("DROP TABLE IF EXISTS", run.target)
             /\ \A i \in 2..Len(run.issued) : run.issued[i].op # "DROP TABLE IF EXISTS"
             /\ run.write_ok => /\ run.target \in DOMAIN tables
                                /\ tables[run.target] = run.df
       /\ run.if_exists \in {ModeError, ModeAppend} => ~Dropped(run.issued)

\* A replace over a table that held other data.
C9_Witness ==
    /\ CreateClicked /\ run.if_exists = ModeReplace /\ run.write_ok
    /\ run.target \in DOMAIN run.before
    /\ run.before[run.target] # run.df
    /\ tables[run.target] = run.df

\* C10: loaded_table is the target's full name after a create-table click whose
\* write succeeded, and is what it was after every other run: a failed write, a
\* failed decode, an SQL execution, a mode switch.
C10_LoadedTableFrame ==
    IF CreateClicked /\ run.write_ok
    THEN loaded_table = run.target /\ run.target = run.loc \o "." \o run.table_name
    ELSE loaded_table = run.loaded_before

\* A failed write after an earlier load.
C10_Witness ==
    /\ CreateClicked /\ ~run.write_ok
    /\ run.loaded_before # None
    /\ loaded_table = run.loaded_before

FileTypes == {"CSV", "TSV", "JSON", "PARQUET", "AVRO", "ORC", "UNKNOWN"}

SuffixTypes ==
    { <<".csv", "CSV">>, <<".tsv", "TSV">>, <<".json", "JSON">>, <<".jsonl", "JSON">>,
      <<".parquet", "PARQUET">>, <<".avro", "AVRO">>, <<".orc", "ORC">> }

FileShown == run.page = "upload" /\ run.file # "" /\ run.raised # "sidebar"

\* C11: the type detected for a file is decided by the suffix of its lower-cased
\* name alone: a name ending in one of the seven listed suffixes has that
\* suffix's type, every other name is UNKNOWN, and the result is always one of
\* the seven tags.
C11_DetectBySuffix ==
    FileShown
    => LET filename == Lower(run.file)
       IN  /\ run.file_type \in FileTypes
           /\ \A st \in SuffixTypes : EndsWith(filename, st[1]) => run.file_type = st[2]
           /\ (\A st \in SuffixTypes : ~EndsWith(filename, st[1]))
              => run.file_type = "UNKNOWN"

\* An upper-case extension after a stem that itself ends in another extension.
C11_Witness ==
    /\ FileShown
    /\ run.file = "x.csv.JSONL"
    /\ run.file_type = "JSON"

JsonShown == FileShown /\ run.file_type = "JSON"

IsBlank(line) == Strip(line) = ""

NonBlankLines(content) == SelectSeq(SplitLines(Strip(content)), LAMBDA line : ~IsBlank(line))

\* C12: the decode of a JSON file goes by the first character of the stripped
\* content: "[" the array parse alone, "{" the single-object parse, giving one
\* row, and the line-by-line parse only when that failed, anything else the
\* line-by-line parse alone; when the last parse tried fails, on any line, the
\* decode fails: an error message, no dataframe, no preview and no create step.
C12_JsonDecodeOrder ==
    JsonShown
    => LET first == Char(Strip(run.content), 1)
           whole == json_loads(run.content)
           lines == NonBlankLines(run.content)
           by_line == \A i \in 1..Len(lines) : json_loads(lines[i]).ok
       IN  /\ first = "[" => /\ run.parses = <<"array">>
                             /\ run.decoded <=> whole.ok
           /\ first = "{" => /\ whole.ok => /\ run.parses = <<"object">>
                                            /\ run.decoded
                                            /\ Len(run.df.rows) = 1
                             /\ ~whole.ok => /\ run.parses = <<"object", "lines">>
                                             /\ run.decoded <=> by_line
           /\ first \notin {"[", "{"} => /\ run.parses = <<"lines">>
                                         /\ run.decoded <=> by_line
           /\ (run.decoded /\ run.parses[Len(run.parses)] = "lines")
              => Len(run.df.rows) = Len(lines)
           /\ ~run.decoded => /\ run.df = NoData
                              /\ run.messages = <<JsonError>>
                              /\ run.issued = <<>>
                              /\ run.recorded = 0
                              /\ tables = run.before

\* Two good lines and a third cut short, after the single-object parse failed.
C12_Witness ==
    /\ JsonShown
    /\ run.content = "{\"a\": 1}\n{\"b\": 2, \"a\": 3}\n{\"a\": "
    /\ run.parses = <<"object", "lines">>
    /\ ~run.decoded
    /\ run.df = NoData

DecodeFailed == FileShown /\ ~run.decoded

\* C13: a run in which the decode of the uploaded file fails ends with one error
\* message and without a write: nothing is sent to the warehouse, its tables
\* are as before, nothing is recorded and loaded_table is what it was. The
\* decode fails for a file of no listed format, for an Avro, ORC or Parquet
\* file when the decoder library is missing, and whenever the parser rejects
\* the file.
C13_DecodeFailureWritesNothing ==
    /\ DecodeFailed
       => /\ Len(run.messages) = 1
          /\ StartsWith(run.messages[1], "error: ")
          /\ ~run.escaped
          /\ run.issued = <<>>
          /\ ~run.write_ok
          /\ run.recorded = 0
          /\ tables = run.before
          /\ loaded_table = run.loaded_before
    /\ (FileShown /\ run.file_type = "UNKNOWN") => ~run.decoded
    /\ (FileShown /\ run.fault = "import" /\ run.file_type \in {"AVRO", "ORC", "PARQUET"})
       => ~run.decoded
    /\ (FileShown /\ run.fault = "import" /\ run.file_type = "AVRO")
       => run.messages = <<"error: reading Avro needs fastavro">>
    /\ (FileShown /\ run.fault = "import" /\ run.file_type = "ORC")
       => run.messages = <<"error: reading ORC needs pyarrow">>

\* A click delivered with an ORC file and no pyarrow, after a table was loaded.
C13_Witness ==
    /\ DecodeFailed
    /\ run.click
    /\ run.file = "sales.orc"
    /\ run.fault = "import"
    /\ run.loaded_before = FullName(Week80, "WEB_SALES")
    /\ loaded_table = run.loaded_before

\* The first query gave a JSON object.
PrimaryGaveRecord(primary) ==
    /\ primary.ok
    /\ HasText(primary)
    /\ json_loads(primary.rows[1]).ok
    /\ json_loads(primary.rows[1]).v.k = "obj"

\* C14: the AI description lookup never raises to its caller and returns a
\* record of a table description and column descriptions, or None; the
\* fallback queries are sent only when the first query gave no record; and the
\* page goes on to its column selection and query builder whatever came back.
C14_DescriptionsNeverRaise ==
    run.ai.looked
    => LET cortex == run.ai.cortex
           first == "AI_GENERATE_TABLE_DESC"
       IN  /\ ~run.ai.raised
           /\ ~run.escaped
           /\ run.ai.result.kind \in {"record", "none"}
           /\ (cortex.own_describe.ok /\ PrimaryGaveRecord(cortex.primary))
              => /\ run.ai.calls = <<first>>
                 /\ run.ai.result.kind = "record"
           /\ (cortex.own_describe.ok /\ ~PrimaryGaveRecord(cortex.primary))
              => /\ Len(run.ai.calls) >= 2
                 /\ run.ai.calls[1] = first
                 /\ run.ai.calls[2] = "DESCRIBE TABLE"
           /\ run.ai.result.kind = "none"
              => /\ run.ai.table_description = ""
                 /\ run.ai.note = "warning: no table overview"
           /\ built.present
           /\ built.sql = generated_sql(built.full_table, DefaultQuery)

\* Both queries answer with text that is not JSON.
C14_Witness ==
    /\ run.ai.looked
    /\ run.ai.cortex.primary = SqlRows(<<"not available">>)
    /\ run.ai.cortex.completion = SqlRows(<<"{table: orders}">>)
    /\ run.ai.calls = <<"AI_GENERATE_TABLE_DESC", "DESCRIBE TABLE", "CORTEX.COMPLETE">>
    /\ run.ai.result.kind = "none"
    /\ built.present

Listing == run.page = "explore" /\ run.loc # "" /\ run.raised \notin {"sidebar", "list"}

Begins(name, n, text) == Len(name) >= n /\ SubSeq(Upper(name), 1, n) = text

TemporaryName(name) ==
    \/ Begins(name, 13, "SNOWPARK_TEMP")
    \/ Begins(name, 5, "TEMP_")
    \/ Begins(name, 5, "_TEMP")
    \/ Begins(name, 4, "TMP_")

IsPermanentName(name) == ~TemporaryName(name)

\* C15: the tables listed on the explore page are the names the warehouse
\* returns for the schema, in its order, without those whose upper-cased name
\* starts with SNOWPARK_TEMP, TEMP_, _TEMP or TMP_; nothing else is removed and
\* nothing is added.
C15_ListedTables ==
    Listing
    => LET shown == show_tables(run.before, run.loc)
       IN  /\ run.listed = SelectSeq(shown, IsPermanentName)
           /\ \A i \in 1..Len(shown) :
                InSeq(shown[i], run.listed) <=> IsPermanentName(shown[i])
           /\ \A i \in 1..Len(run.listed) : InSeq(run.listed[i], shown)
           /\ shown = Catalog
              => run.listed = <<"ATMP_X", "MY_TEMP_", "ORDERS", "TEMPLATE", "WEB_SALES">>

\* The schema holds every table of the catalog.
C15_Witness ==
    /\ Listing
    /\ show_tables(run.before, run.loc) = Catalog
    /\ run.listed = <<"ATMP_X", "MY_TEMP_", "ORDERS", "TEMPLATE", "WEB_SALES">>

Assembled == run.page = "explore" /\ built.present

\* C16: the SQL text the explore page assembles is a function of the table and
\* the query widgets alone: the same table, columns, conditions, raw filter,
\* order, limit and distinct flag give the same text whatever the history, the
\* loaded table and the mode of the session are.
C16_AssemblyIgnoresSession ==
    Assembled
    => /\ built.sql = generated_sql(built.full_table, built.q)
       /\ built.sql_lines = sql_lines(built.full_table, built.q)
       /\ (built.full_table = "FROSTYFRIDAY.WEEK80.ORDERS" /\ built.q = DefaultQuery)
          => built.sql = "SELECT *\nFROM FROSTYFRIDAY.WEEK80.ORDERS\nLIMIT 100"

\* The same query assembled in a session that has loaded another table and
\* has a history.
C16_Witness ==
    /\ Assembled
    /\ built.full_table = "FROSTYFRIDAY.WEEK80.ORDERS"
    /\ built.q = DefaultQuery
    /\ built.sql = "SELECT *\nFROM FROSTYFRIDAY.WEEK80.ORDERS\nLIMIT 100"
    /\ run.loaded_before = "FROSTYFRIDAY.WEEK80.WEB_SALES"
    /\ Len(query_history) = 2

\* A click on the create-table button or on the execute button.
ButtonClicked == run.click /\ run.page \in {"upload", "explore"}

\* The write of a create-table click or the query of an execute click went through.
ActionSucceeded ==
    IF run.page = "upload" THEN run.write_ok ELSE run.raised = "none"

\* C17: each click on the create-table button and each click on the execute
\* button adds exactly one entry to the history; the entry is a success
\* exactly when the write or the query succeeded, and a failed entry has row
\* count 0.
C17_OneEntryPerClick ==
    ButtonClicked
    => /\ run.recorded = 1
       /\ Len(log) >= 1
       /\ log[Len(log)].status = Success <=> ActionSucceeded
       /\ log[Len(log)].status = Failed => log[Len(log)].rows = 0

\* The selectbox of tables is drawn.
TablesShown == Listing /\ Len(run.listed) > 0

\* The loaded table is one of the listed tables of the selected database and schema.
LoadedHere ==
    /\ run.loaded_before # None
    /\ \E i \in 1..Len(run.listed) :
            FullName(run.loc, run.listed[i]) = run.loaded_before

\* C18: the table selected by default on the explore page is the most
\* recently loaded table when that table was loaded into the selected database
\* and schema and is listed, and the first listed table in every other case.
C18_DefaultIsLoadedHere ==
    TablesShown
    => IF LoadedHere
       THEN FullName(run.loc, run.default_table) = run.loaded_before
       ELSE run.default_table = run.listed[1]

=============================================================================
